---- MODULE Spec2Model ----
(***************************************************************************)
(* RS32 LiDAR packet decoders of rs_driver.                                *)
(*                                                                         *)
(* Two decoder classes are modelled:                                       *)
(*   Decoder32    rs_driver/driver/decoder/decoder_32.hpp                  *)
(*   DecoderRS32  src/rs_driver/driver/decoder/decoder_RS32.hpp            *)
(* The variable impl says which class the decoder object is an instance    *)
(* of; it is chosen at construction and never changes.                     *)
(*                                                                         *)
(* Units.  Distances are counted in raw channel units of 5 mm (0.4 m is    *)
(* 80 units, 200.0 m is 40000 units).  Azimuths are hundredths of a degree.*)
(* Entries of the calibration lists are kept in thousandths of a degree    *)
(* (ten times the float the code stores), so that the 0.1f scaling of the  *)
(* DIFOP bytes stays exact.  A float that may be NaN is a tuple: NaN is    *)
(* the empty tuple, a number v is <<v>>, a coordinate is a symbolic term.  *)
(***************************************************************************)
EXTENDS Integers, Sequences, FiniteSets, TLC

\* ------------------------------------------------------------------------
\* Program constants
\* ------------------------------------------------------------------------
RS32_CHANNELS_PER_BLOCK == 32
RS32_BLOCKS_PER_PKT == 12
RS32_POINTS_CHANNEL_PER_SECOND == 18000
RS32_BLOCKS_CHANNEL_PER_PKT == 12
RS32_CHANNEL_TOFFSET == 3
RS32_FIRING_TDURATION == 50
\* 0xEEFF
RS32_BLOCK_ID == 61183
\* 0xA050A55A0A05AA55 and 0x555511115A00FFA5 as the 8 bytes a little-endian
\* uint64_t load compares against
RS32_MSOP_ID == <<85, 170, 5, 10, 90, 165, 80, 160>>
RS32_DIFOP_ID == <<165, 255, 0, 90, 17, 17, 85, 85>>

\* RSDecoderConstParam of DecoderRS32::getConstParam
MSOP_LEN == 1248
DIFOP_LEN == 1248
MSOP_ID == <<85, 170, 5, 10, 90, 165, 80, 160>>
DIFOP_ID == <<165, 255, 0, 90, 17, 17, 85, 85>>
BLOCK_ID == <<255, 238>>
BLOCKS_PER_PKT == 12
CHANNELS_PER_BLOCK == 32
\* firing_ts and the block duration, in hundredths of a microsecond
FIRING_TS ==
  <<   0,  288,  576,  864, 1152, 1440, 1728, 2016,
    2304, 2592, 2880, 3168, 3456, 3744, 4032, 4464,
     144,  432,  720, 1008, 1296, 1584, 1872, 2160,
    2448, 2736, 3024, 3312, 3600, 3888, 4176, 4608>>
BLOCK_DURATION == 5552

\* 200.0f and 0.4f of the Decoder32 constructor, in 5 mm units
RS32_MAX_RANGE == 40000
RS32_MIN_RANGE == 80

\* echo modes: Decoder32 stores the raw return_mode byte (1 or 2) or
\* RS_ECHO_DUAL; DecoderRS32 stores an RSEchoMode enumerator
RS_ECHO_DUAL == 0
ECHO_SINGLE == "ECHO_SINGLE"
ECHO_DUAL == "ECHO_DUAL"

ERRCODE_WRONGPKTLENGTH == "ERRCODE_WRONGPKTLENGTH"
ERRCODE_WRONGPKTHEADER == "ERRCODE_WRONGPKTHEADER"

\* ------------------------------------------------------------------------
\* C arithmetic
\* ------------------------------------------------------------------------
\* int division and remainder truncate toward zero (b > 0)
CDiv(a, b) == IF a >= 0 THEN a \div b ELSE -((-a) \div b)
CMod(a, b) == a - b * CDiv(a, b)

\* conversion of an int to int16_t (two's complement wrap)
ToInt16(v) == ((v + 32768) % 65536) - 32768

\* byte swap of a uint16_t
RS_SWAP_SHORT(x) == (x % 256) * 256 + (x \div 256)
ntohs(x) == (x % 256) * 256 + (x \div 256)

\* uint16_t load of two bytes on a little-endian host
LE16(b) == b[1] + 256 * b[2]

\* memcmp(a, b, n) != 0
memcmpNeq(a, b, n) == \E i \in 1..n : a[i] # b[i]

NaN == <<>>
IsNaN(f) == f = <<>>

Channels == 0..(RS32_CHANNELS_PER_BLOCK - 1)
Blocks == 0..(RS32_BLOCKS_PER_PKT - 1)

\* ------------------------------------------------------------------------
\* Bounds of the input sets
\* ------------------------------------------------------------------------
\* number of distinct calibration payloads a DIFOP packet may carry, besides
\* the unprogrammed (all 0xFF) one
NumCaliPayloads == 2
\* number of azimuth plans (block azimuth sequences) of MSOP packets
NumAzimuthPlans == 2
\* number of distance plans (channel distance patterns) of MSOP packets
NumDistancePlans == 2

\* ------------------------------------------------------------------------
\* Inputs: construction parameters
\* ------------------------------------------------------------------------
\* {max_distance, min_distance} in 5 mm units: defaults, an inner window,
\* max above 200 m, max below 0.4 m, min below 0.4 m, min above max,
\* min above 200 m
DistanceParams ==
  { [max_distance |-> 40000, min_distance |-> 80],
    [max_distance |-> 20000, min_distance |-> 200],
    [max_distance |-> 50000, min_distance |-> 80],
    [max_distance |-> 40,    min_distance |-> 20],
    [max_distance |-> 20000, min_distance |-> 20],
    [max_distance |-> 20000, min_distance |-> 30000],
    [max_distance |-> 20000, min_distance |-> 41000] }

\* {start_angle, end_angle} in hundredths of a degree
AngleParams ==
  { [start_angle |-> 0,     end_angle |-> 36000],
    [start_angle |-> 35000, end_angle |-> 1000] }

Param(d, a, dp) ==
  [max_distance |-> d.max_distance, min_distance |-> d.min_distance,
   start_angle |-> a.start_angle, end_angle |-> a.end_angle,
   dense_points |-> dp, use_lidar_clock |-> TRUE]

FullTurn == [start_angle |-> 0, end_angle |-> 36000]

\* every distance setting with the full-turn window and sparse output, and
\* every window and output policy with the two in-range distance settings
DecoderParams ==
  { Param(d, FullTurn, FALSE) : d \in DistanceParams }
    \cup { Param(d, a, dp) :
             d \in { [max_distance |-> 40000, min_distance |-> 80],
                     [max_distance |-> 20000, min_distance |-> 200] },
             a \in AngleParams, dp \in BOOLEAN }

\* ------------------------------------------------------------------------
\* Inputs: calibration payloads (pitch_cali / yaw_cali, 32 x 3 bytes)
\* ------------------------------------------------------------------------
\* one 3-byte tuple per channel: sign byte, then the magnitude, high byte first
CaliTriple(sign, mag) == <<sign, mag \div 256, mag % 256>>

\* payload k = 0 is unprogrammed flash; k >= 1 are programmed tables.  Odd
\* payloads use sign bytes 0/1 only, even ones also carry a sign byte 2
\* (neither 0 nor 1) on every fifth channel.
PitchTriple(k, i) ==
  IF k = 0 THEN <<255, 255, 255>>
  ELSE CaliTriple(IF k % 2 = 0 /\ i % 5 = 4 THEN 2 ELSE (IF i < 16 THEN 1 ELSE 0),
                  300 * k + 1000 * (i % 16))

YawTriple(k, i) ==
  IF k = 0 THEN <<255, 255, 255>>
  ELSE CaliTriple(i % 2, 100 * k + 50 * (i % 8))

\* the 96 bytes, indexed from 0 as in the packet
pitch_cali(k) == [j \in 0..95 |-> PitchTriple(k, j \div 3)[(j % 3) + 1]]
yaw_cali(k) == [j \in 0..95 |-> YawTriple(k, j \div 3)[(j % 3) + 1]]

CaliPayloads == 0..NumCaliPayloads

\* ------------------------------------------------------------------------
\* Inputs: DIFOP packets
\* ------------------------------------------------------------------------
BadId8 == <<0, 0, 0, 0, 0, 0, 0, 0>>

DifopPkt(size, id, mode, k) ==
  [kind |-> "difop", size |-> size, id |-> id, rpm |-> RS_SWAP_SHORT(1200),
   return_mode |-> mode,
   pitch_cali |-> pitch_cali(k), yaw_cali |-> yaw_cali(k)]

\* packets with the DIFOP id, every return mode and every payload, of the
\* right length or truncated to 100 bytes (the decoder reads a truncated
\* packet past its end, so the fields it finds there are arbitrary), and
\* packets with a wrong identifier carrying payload 1
DifopPkts ==
  { DifopPkt(size, DIFOP_ID, mode, k) :
      size \in {DIFOP_LEN, 100}, mode \in {0, 1, 2, 255}, k \in CaliPayloads }
    \cup { DifopPkt(DIFOP_LEN, BadId8, mode, 1) : mode \in {0, 1, 2, 255} }

\* ------------------------------------------------------------------------
\* Inputs: MSOP packets
\* ------------------------------------------------------------------------
\* block azimuths.  Plan 1 probes the window edges, the 360 -> 0 wraparound
\* and a corrupt azimuth (65535); the other plans are ramps of 20 hundredths
\* per block starting at 35900 + 40 * (plan - 2), so they cross 0.
ProbeAzimuths ==
  <<35500, 500, 20000, 34999, 35000, 1000, 1001, 35999, 1, 65535, 0, 18000>>

PlanAzimuth(plan, b) ==
  IF plan = 1 THEN ProbeAzimuths[b + 1]
  ELSE (35900 + 40 * (plan - 2) + 20 * b) % 36000

\* channel distances, raw units.  Plan 1 cycles through the edges of the
\* distance windows; plan 2 is the all-40000 packet; further plans are
\* constant 40000 + (plan - 2).
ProbeDistances == <<80, 79, 199, 200, 20000, 20001, 40000, 40001>>

PlanDistance(plan, b, c) ==
  IF plan = 1 THEN ProbeDistances[(c % 8) + 1]
  ELSE 40000 + (plan - 2)

BadId2 == <<255, 255>>

MsopPkt(size, id, bad, aplan, dplan) ==
  [kind |-> "msop", size |-> size, host_time |-> 777000,
   header |-> [id |-> id, temp_raw |-> 400, timestamp |-> 1000 * dplan],
   blocks |-> [b \in Blocks |->
      [id |-> IF b \in bad THEN BadId2 ELSE BLOCK_ID,
       azimuth |-> RS_SWAP_SHORT(PlanAzimuth(aplan, b)),
       channels |-> [c \in Channels |->
          [distance |-> RS_SWAP_SHORT(PlanDistance(dplan, b, c)),
           intensity |-> (7 * b + c) % 256]]]]]

\* packets with the MSOP id and every plan: well-formed, with a block of
\* wrong id, or truncated to 100 bytes (the decoder reads a truncated packet
\* past its end, so the blocks it finds there are arbitrary); and a packet
\* with a wrong identifier carrying the probe plans
MsopPkts ==
  { MsopPkt(v.size, MSOP_ID, v.bad, aplan, dplan) :
      v \in { [size |-> MSOP_LEN, bad |-> {}],
              [size |-> MSOP_LEN, bad |-> {3}],
              [size |-> 100,      bad |-> {}] },
      aplan \in 1..NumAzimuthPlans,
      dplan \in 1..NumDistancePlans }
    \cup { MsopPkt(MSOP_LEN, BadId8, {}, 1, 1) }

\* ------------------------------------------------------------------------
\* Inputs: calibration files
\* ------------------------------------------------------------------------
\* a file is "missing" (cannot be opened) or a sequence of rows; a row holds
\* the two decimal numbers of a line, in thousandths of a degree
FileRow(i) == [vert |-> 15000 - 1290 * i, hori |-> 10 * ((i % 5) - 2)]

AngleFiles ==
  { [kind |-> "file", open |-> FALSE, rows |-> <<>>],
    [kind |-> "file", open |-> TRUE, rows |-> [i \in 1..32 |-> FileRow(i - 1)]] }

NoCall == [kind |-> "none"]

\* ------------------------------------------------------------------------
\* State
\* ------------------------------------------------------------------------
VARIABLES
  impl,              \* "Decoder32" or "DecoderRS32"
  param_,            \* the parameters given to the constructor
  echo_mode_,
  rpm_,
  pkts_per_frame_,   \* Decoder32
  temperature_,      \* DecoderRS32
  cali_data_flag_,   \* Decoder32
  vert_angle_list_,  \* Decoder32, thousandths of a degree
  hori_angle_list_,  \* Decoder32, thousandths of a degree
  max_distance_,     \* Decoder32, 5 mm units
  min_distance_,     \* Decoder32, 5 mm units
  start_angle_,      \* Decoder32
  end_angle_,        \* Decoder32
  angle_flag_,       \* Decoder32: TRUE when the window does not wrap
  difop_ready_,      \* DecoderRS32
  chan_angles_,      \* DecoderRS32
  distance_block_,   \* DecoderRS32
  scan_block_,       \* DecoderRS32
  call,              \* the call the host has issued: packet or file handed over
  pending,           \* TRUE while that call has not run yet
  errs,              \* invocations of the error callback during the call
  vec,               \* points the call appended to the sink
  ret,               \* return value of the call (Decoder32)
  cali_populated     \* history: all 32 entries were written by a file or a packet

vars ==
  <<impl, param_, echo_mode_, rpm_, pkts_per_frame_, temperature_,
    cali_data_flag_, vert_angle_list_, hori_angle_list_, max_distance_,
    min_distance_, start_angle_, end_angle_, angle_flag_, difop_ready_,
    chan_angles_, distance_block_, scan_block_, call, pending, errs, vec, ret,
    cali_populated>>

\* the decoder's fields that an MSOP or DIFOP decode may read
decoderState ==
  <<impl, param_, echo_mode_, rpm_, pkts_per_frame_, temperature_,
    cali_data_flag_, vert_angle_list_, hori_angle_list_, max_distance_,
    min_distance_, start_angle_, end_angle_, angle_flag_, difop_ready_,
    chan_angles_, distance_block_, scan_block_>>

ZeroAngles == [c \in Channels |-> 0]

\* ------------------------------------------------------------------------
\* Construction
\* ------------------------------------------------------------------------
\* Decoder32::Decoder32, the two range checks
Decoder32_max_distance(max) ==
  IF max > RS32_MAX_RANGE \/ max < RS32_MIN_RANGE THEN RS32_MAX_RANGE ELSE max

Decoder32_min_distance(min, max) ==
  IF min > RS32_MAX_RANGE \/ min > max THEN RS32_MIN_RANGE ELSE min

\* DecoderBase: the azimuth window wraps when start_angle > end_angle
DecoderBase_angle_flag(start, end) == start <= end

\* Decoder<T_PointCloud>: distance bounds re-clamped into the sensor range
Decoder_distance_block(min, max) ==
  LET mx == IF max > RS32_MAX_RANGE \/ max < RS32_MIN_RANGE
            THEN RS32_MAX_RANGE ELSE max
      mn == IF min > RS32_MAX_RANGE \/ min < RS32_MIN_RANGE \/ min > mx
            THEN RS32_MIN_RANGE ELSE min
  IN  [min |-> mn, max |-> mx]

\* rank of channel c by ascending vertical angle (ties by channel index)
UserChans(vert) ==
  [c \in Channels |->
     Cardinality({d \in Channels :
        vert[d] < vert[c] \/ (vert[d] = vert[c] /\ d < c)})]

ChanAngles(vert, horiz) ==
  [vert |-> vert, horiz |-> horiz, user_chans |-> UserChans(vert)]

Init ==
  /\ impl \in {"Decoder32", "DecoderRS32"}
  /\ param_ \in DecoderParams
  \* RSDecoder_Param of Decoder32 has no dense_points option
  /\ impl = "Decoder32" => ~param_.dense_points
  /\ echo_mode_ \in (IF impl = "Decoder32" THEN {RS_ECHO_DUAL, 1}
                                          ELSE {ECHO_SINGLE, ECHO_DUAL})
  /\ rpm_ = 600
  /\ pkts_per_frame_ = 0
  /\ temperature_ = 0
  /\ cali_data_flag_ = 0
  /\ vert_angle_list_ = ZeroAngles
  /\ hori_angle_list_ = ZeroAngles
  /\ max_distance_ = Decoder32_max_distance(param_.max_distance)
  /\ min_distance_ = Decoder32_min_distance(param_.min_distance, max_distance_)
  /\ start_angle_ = param_.start_angle
  /\ end_angle_ = param_.end_angle
  /\ angle_flag_ = DecoderBase_angle_flag(param_.start_angle, param_.end_angle)
  /\ difop_ready_ = FALSE
  /\ chan_angles_ = ChanAngles(ZeroAngles, ZeroAngles)
  /\ distance_block_ = Decoder_distance_block(param_.min_distance, param_.max_distance)
  /\ scan_block_ = [start |-> param_.start_angle, end |-> param_.end_angle]
  /\ call = NoCall
  /\ pending = FALSE
  /\ errs = <<>>
  /\ vec = <<>>
  /\ ret = 0
  /\ cali_populated = FALSE

\* ------------------------------------------------------------------------
\* The host: hands over one packet or one file path at a time, together
\* with an empty sink, and takes the output of the call once it has run
\* ------------------------------------------------------------------------
HostCall(c) ==
  /\ ~pending /\ call = NoCall
  /\ call' = c
  /\ pending' = TRUE
  /\ UNCHANGED <<decoderState, errs, vec, ret, cali_populated>>

HostTakesOutput ==
  /\ ~pending /\ call # NoCall
  /\ call' = NoCall
  /\ errs' = <<>>
  /\ vec' = <<>>
  /\ ret' = 0
  /\ UNCHANGED <<decoderState, pending, cali_populated>>

HostSendsMsop == \E p \in MsopPkts : HostCall(p)
HostSendsDifop == \E p \in DifopPkts : HostCall(p)
HostLoadsFile == \E f \in AngleFiles : impl = "Decoder32" /\ HostCall(f)

\* ------------------------------------------------------------------------
\* Decoder32::decodeDifopPkt
\* ------------------------------------------------------------------------
\* the sign carried from one 3-byte tuple to the next: a sign byte that is
\* neither 0 nor 1 leaves neg as the previous tuple set it
NegAfter(lsb, neg) == IF lsb = 0 THEN 1 ELSE IF lsb = 1 THEN -1 ELSE neg

RECURSIVE NegIn(_, _, _)
\* value of neg at the top of iteration i of the calibration loop
NegIn(p_ver_cali, p_hori_cali, i) ==
  IF i = 0 THEN 1
  ELSE NegAfter(p_hori_cali[(i - 1) * 3],
                NegAfter(p_ver_cali[(i - 1) * 3],
                         NegIn(p_ver_cali, p_hori_cali, i - 1)))

\* vert_angle_list_[i] as the loop writes it (x 10: thousandths of a degree)
DifopVertAngle(p_ver_cali, p_hori_cali, i) ==
  (p_ver_cali[i * 3 + 1] * 256 + p_ver_cali[i * 3 + 2])
    * NegAfter(p_ver_cali[i * 3], NegIn(p_ver_cali, p_hori_cali, i))

\* hori_angle_list_[i] as the loop writes it
DifopHoriAngle(p_ver_cali, p_hori_cali, i) ==
  (p_hori_cali[i * 3 + 1] * 256 + p_hori_cali[i * 3 + 2])
    * NegAfter(p_hori_cali[i * 3],
               NegAfter(p_ver_cali[i * 3], NegIn(p_ver_cali, p_hori_cali, i)))

\* angle_flag of decodeDifopPkt: FALSE when the first three pitch bytes are
\* each 0x00 or 0xFF
DifopAngleFlag(p_ver_cali) ==
  ~ (/\ p_ver_cali[0] \in {0, 255}
     /\ p_ver_cali[1] \in {0, 255}
     /\ p_ver_cali[2] \in {0, 255})

\* echo_mode_ after the return_mode test
Decoder32_echo_mode(return_mode) ==
  IF return_mode = 1 \/ return_mode = 2 THEN return_mode ELSE RS_ECHO_DUAL

\* pkts_per_frame_: ceil() of an int quotient is the quotient
Decoder32_pkts_per_frame(echo, rpm) ==
  LET pkt_rate == CDiv(RS32_POINTS_CHANNEL_PER_SECOND, RS32_BLOCKS_CHANNEL_PER_PKT)
      rate == IF echo = RS_ECHO_DUAL THEN pkt_rate * 2 ELSE pkt_rate
  IN  CDiv(rate * 60, rpm)

\* bit 0x2 of cali_data_flag_
CaliBit2(flag) == (flag \div 2) % 2 = 1

decodeDifopPkt ==
  /\ pending /\ impl = "Decoder32" /\ call.kind = "difop"
  /\ pending' = FALSE
  /\ IF call.id # RS32_DIFOP_ID
     THEN /\ ret' = -2
          /\ UNCHANGED <<echo_mode_, pkts_per_frame_, cali_data_flag_,
                         vert_angle_list_, hori_angle_list_, cali_populated>>
     ELSE /\ ret' = 0
          /\ echo_mode_' = Decoder32_echo_mode(call.return_mode)
          /\ pkts_per_frame_' = Decoder32_pkts_per_frame(echo_mode_', rpm_)
          /\ IF ~CaliBit2(cali_data_flag_) /\ DifopAngleFlag(call.pitch_cali)
             THEN /\ vert_angle_list_' =
                       [i \in Channels |->
                          DifopVertAngle(call.pitch_cali, call.yaw_cali, i)]
                  /\ hori_angle_list_' =
                       [i \in Channels |->
                          DifopHoriAngle(call.pitch_cali, call.yaw_cali, i)]
                  /\ cali_data_flag_' =
                       IF CaliBit2(cali_data_flag_) THEN cali_data_flag_
                       ELSE cali_data_flag_ + 2
                  /\ cali_populated' = TRUE
             ELSE UNCHANGED <<cali_data_flag_, vert_angle_list_,
                              hori_angle_list_, cali_populated>>
  /\ UNCHANGED <<impl, param_, rpm_, temperature_, max_distance_, min_distance_,
                 start_angle_, end_angle_, angle_flag_, difop_ready_,
                 chan_angles_, distance_block_, scan_block_, call, errs, vec>>

\* ------------------------------------------------------------------------
\* Decoder32::loadCalibrationFile
\* ------------------------------------------------------------------------
\* the list after the read loop: row i of the file overwrites entry i, for
\* at most laser_num = 32 rows
FileAngles(old, rows, field) ==
  [i \in Channels |->
     IF i + 1 <= Len(rows) THEN rows[i + 1][field] ELSE old[i]]

loadCalibrationFile ==
  /\ pending /\ impl = "Decoder32" /\ call.kind = "file"
  /\ pending' = FALSE
  /\ IF ~call.open
     THEN UNCHANGED <<vert_angle_list_, hori_angle_list_, cali_populated>>
     ELSE /\ vert_angle_list_' = FileAngles(vert_angle_list_, call.rows, "vert")
          /\ hori_angle_list_' = FileAngles(hori_angle_list_, call.rows, "hori")
          /\ cali_populated' = (cali_populated \/ Len(call.rows) >= 32)
  /\ UNCHANGED <<impl, param_, echo_mode_, rpm_, pkts_per_frame_, temperature_,
                 cali_data_flag_, max_distance_, min_distance_, start_angle_,
                 end_angle_, angle_flag_, difop_ready_, chan_angles_,
                 distance_block_, scan_block_, call, errs, vec, ret>>

\* ------------------------------------------------------------------------
\* DecoderRS32::processDifopPkt
\* ------------------------------------------------------------------------
getEchoMode(mode) ==
  IF mode = 0 THEN ECHO_DUAL ELSE ECHO_SINGLE

\* ChanAngles::loadFromDifop: per channel a sign byte (0 positive, 1
\* negative) and a big-endian magnitude in tenths of a hundredth of a degree
ChanAngle(cali, i) ==
  (cali[i * 3 + 1] * 256 + cali[i * 3 + 2]) * (IF cali[i * 3] = 1 THEN -1 ELSE 1)

loadFromDifop(ver_angle_cali, hori_angle_cali) ==
  ChanAngles([i \in Channels |-> ChanAngle(ver_angle_cali, i)],
             [i \in Channels |-> ChanAngle(hori_angle_cali, i)])

\* decodeDifopCommon: the motor speed field of the packet
decodeDifopCommon_rpm(pkt) == ntohs(pkt.rpm)

\* the Calibration Store is marked ready once the packet's tables are ingested
ReadyAfterLoad == TRUE

\* the error callback invocations of the two checks, in order
DifopErrors(size, id) ==
  (IF size # DIFOP_LEN THEN <<ERRCODE_WRONGPKTLENGTH>> ELSE <<>>)
    \o (IF memcmpNeq(DIFOP_ID, id, 8) THEN <<ERRCODE_WRONGPKTHEADER>> ELSE <<>>)

processDifopPkt ==
  /\ pending /\ impl = "DecoderRS32" /\ call.kind = "difop"
  /\ pending' = FALSE
  /\ errs' = errs \o DifopErrors(call.size, call.id)
  /\ echo_mode_' = getEchoMode(call.return_mode)
  /\ rpm_' = decodeDifopCommon_rpm(call)
  /\ IF ~difop_ready_
     THEN /\ chan_angles_' = loadFromDifop(call.pitch_cali, call.yaw_cali)
          /\ difop_ready_' = ReadyAfterLoad
          /\ cali_populated' = TRUE
     ELSE UNCHANGED <<chan_angles_, difop_ready_, cali_populated>>
  /\ UNCHANGED <<impl, param_, pkts_per_frame_, temperature_, cali_data_flag_,
                 vert_angle_list_, hori_angle_list_, max_distance_,
                 min_distance_, start_angle_, end_angle_, angle_flag_,
                 distance_block_, scan_block_, call, vec, ret>>

\* ------------------------------------------------------------------------
\* Decoder32::decodeMsopPkt
\* ------------------------------------------------------------------------
\* index of the block whose azimuth is read as the other end of the
\* interpolation interval of block blk_idx
PairedBlock(echo, blk_idx) ==
  IF echo = RS_ECHO_DUAL
  THEN (IF blk_idx < RS32_BLOCKS_PER_PKT - 2 THEN blk_idx + 2 ELSE blk_idx - 2)
  ELSE (IF blk_idx < RS32_BLOCKS_PER_PKT - 1 THEN blk_idx + 1 ELSE blk_idx - 1)

\* TRUE when the block's own azimuth is azi_cur (the paired one is azi_prev)
PairForward(echo, blk_idx) ==
  IF echo = RS_ECHO_DUAL
  THEN blk_idx < RS32_BLOCKS_PER_PKT - 2
  ELSE blk_idx < RS32_BLOCKS_PER_PKT - 1

BlockAzimuth(pkt, b) == RS_SWAP_SHORT(pkt.blocks[b].azimuth)

azi_prev(pkt, echo, blk_idx) ==
  IF PairForward(echo, blk_idx)
  THEN BlockAzimuth(pkt, PairedBlock(echo, blk_idx))
  ELSE BlockAzimuth(pkt, blk_idx)

azi_cur(pkt, echo, blk_idx) ==
  IF PairForward(echo, blk_idx)
  THEN BlockAzimuth(pkt, blk_idx)
  ELSE BlockAzimuth(pkt, PairedBlock(echo, blk_idx))

\* (36000 + azi_prev - azi_cur) % 36000 on ints
AzimuthDiff(prev, cur) == CMod(36000 + prev - cur, 36000)

azimuth_diff(pkt, echo, blk_idx) ==
  AzimuthDiff(azi_prev(pkt, echo, blk_idx), azi_cur(pkt, echo, blk_idx))

\* azimuth_channel, times RS32_FIRING_TDURATION to stay an integer
azimuth_channel50(azimuth_blk, diff, channel_idx) ==
  RS32_FIRING_TDURATION * azimuth_blk
    + diff * RS32_CHANNEL_TOFFSET * (channel_idx % 16)

\* DecoderBase::azimuthCalibration: the channel azimuth plus the channel's
\* horizontal offset, converted to int
azimuthCalibration(azimuth50, hori) ==
  CDiv(azimuth50 + 5 * hori, RS32_FIRING_TDURATION)

\* the gate with the upper distance bound made exclusive
Gate32_exclusiveMax(distance_cali, angle_horiz, maxd, mind, flag, start, end) ==
  /\ distance_cali < maxd /\ distance_cali >= mind
  /\ \/ (flag /\ angle_horiz >= start /\ angle_horiz <= end)
     \/ (~flag /\ (\/ (angle_horiz >= start /\ angle_horiz <= 36000)
                   \/ (angle_horiz >= 0 /\ angle_horiz <= end)))

\* the distance and azimuth gate of the point
Gate32(distance_cali, angle_horiz, maxd, mind, flag, start, end) ==
  /\ distance_cali <= maxd /\ distance_cali >= mind
  /\ \/ (flag /\ angle_horiz >= start /\ angle_horiz <= end)
     \/ (~flag /\ (\/ (angle_horiz >= start /\ angle_horiz <= 36000)
                   \/ (angle_horiz >= 0 /\ angle_horiz <= end)))

\* int distance / float distance_cali of a channel, in raw units
Distance32(pkt, blk_idx, channel_idx) ==
  RS_SWAP_SHORT(pkt.blocks[blk_idx].channels[channel_idx].distance)

\* azimuth_channel (times 50) of a channel
AzimuthChannel32(pkt, blk_idx, channel_idx) ==
  azimuth_channel50(BlockAzimuth(pkt, blk_idx),
                    azimuth_diff(pkt, echo_mode_, blk_idx), channel_idx)

\* angle_horiz = (azimuth_final + 36000) % 36000
AngleHoriz32(pkt, blk_idx, channel_idx) ==
  CMod(azimuthCalibration(AzimuthChannel32(pkt, blk_idx, channel_idx),
                          hori_angle_list_[channel_idx]) + 36000, 36000)

\* the point pushed for one channel of one block
Point32(pkt, blk_idx, channel_idx) ==
  LET az50 == AzimuthChannel32(pkt, blk_idx, channel_idx)
      intensity == pkt.blocks[blk_idx].channels[channel_idx].intensity
      distance_cali == Distance32(pkt, blk_idx, channel_idx)
      angle_horiz == AngleHoriz32(pkt, blk_idx, channel_idx)
      angle_horiz_ori ==
        CMod(CDiv(az50 + 36000 * RS32_FIRING_TDURATION, RS32_FIRING_TDURATION), 36000)
      angle_vert ==
        CMod(CMod(CDiv(vert_angle_list_[channel_idx], 10), 36000) + 36000, 36000)
  IN  IF Gate32(distance_cali, angle_horiz, max_distance_, min_distance_,
                angle_flag_, start_angle_, end_angle_)
      THEN [x |-> <<"x", distance_cali, angle_vert, angle_horiz, angle_horiz_ori>>,
            y |-> <<"y", distance_cali, angle_vert, angle_horiz, angle_horiz_ori>>,
            z |-> <<"z", distance_cali, angle_vert>>,
            intensity |-> <<intensity>>]
      ELSE [x |-> NaN, y |-> NaN, z |-> NaN, intensity |-> NaN]

\* number of blocks the loop processes: it breaks at the first block whose
\* id is not RS32_BLOCK_ID
RECURSIVE BlocksDecoded32(_, _)
BlocksDecoded32(pkt, b) ==
  IF b >= RS32_BLOCKS_PER_PKT THEN RS32_BLOCKS_PER_PKT
  ELSE IF LE16(pkt.blocks[b].id) # RS32_BLOCK_ID THEN b
  ELSE BlocksDecoded32(pkt, b + 1)

Points32(pkt) ==
  [k \in 1..(BlocksDecoded32(pkt, 0) * RS32_CHANNELS_PER_BLOCK) |->
     Point32(pkt, (k - 1) \div RS32_CHANNELS_PER_BLOCK,
                  (k - 1) % RS32_CHANNELS_PER_BLOCK)]

decodeMsopPkt32 ==
  /\ pending /\ impl = "Decoder32" /\ call.kind = "msop"
  /\ pending' = FALSE
  /\ IF call.header.id # RS32_MSOP_ID
     THEN /\ ret' = -2
          /\ vec' = vec
     ELSE /\ ret' = BlockAzimuth(call, 0)
          /\ vec' = vec \o Points32(call)
  /\ UNCHANGED <<decoderState, call, errs, cali_populated>>

\* ------------------------------------------------------------------------
\* DecoderRS32::decodeMsopPkt
\* ------------------------------------------------------------------------
\* calcTemp: linear conversion of the raw header field
calcTemp(temp_raw) == CDiv(temp_raw, 16)

\* calcTimeYMD / calcTimeHost: the packet's device time, or the host's clock
PktTimestamp(pkt, use_lidar_clock) ==
  IF use_lidar_clock THEN pkt.header.timestamp ELSE pkt.host_time

\* SingleReturnPacketTraverser: visits every block and every channel of the
\* packet in order; block b is interpolated against its neighbour. The
\* traverser is constructed from const_param_, the packet and pkt_ts only:
\* the decoder's echo_mode_ is not handed to it.
TraverserForward(blk) == blk < BLOCKS_PER_PKT - 1

TraverserPairedBlock(blk) == IF TraverserForward(blk) THEN blk + 1 ELSE blk - 1

TraverserDiff(pkt, blk) ==
  IF TraverserForward(blk)
  THEN AzimuthDiff(ntohs(pkt.blocks[TraverserPairedBlock(blk)].azimuth),
                   ntohs(pkt.blocks[blk].azimuth))
  ELSE AzimuthDiff(ntohs(pkt.blocks[blk].azimuth),
                   ntohs(pkt.blocks[TraverserPairedBlock(blk)].azimuth))

\* the int16_t angle_horiz that traverser.get() hands back
TraverserAngle(pkt, blk, chan) ==
  ToInt16(ntohs(pkt.blocks[blk].azimuth)
            + CDiv(TraverserDiff(pkt, blk) * FIRING_TS[chan + 1], BLOCK_DURATION))

\* the chan_ts that traverser.get() hands back
TraverserTs(pkt_ts, blk, chan) ==
  pkt_ts + blk * BLOCK_DURATION + FIRING_TS[chan + 1]

\* ChanAngles::vertAdjust, horizAdjust, toUserChan
vertAdjust(chan) == ToInt16(CDiv(chan_angles_.vert[chan], 10))

horizAdjust(chan, horiz) ==
  ToInt16((((horiz + CDiv(chan_angles_.horiz[chan], 10)) % 36000) + 36000) % 36000)

toUserChan(chan) == chan_angles_.user_chans[chan]

\* DistanceBlock::in and AzimuthBlock::in
DistanceBlock_in(blk, distance) == blk.min <= distance /\ distance <= blk.max

AzimuthBlock_in(blk, angle) ==
  IF blk.start <= blk.end
  THEN blk.start <= angle /\ angle <= blk.end
  ELSE angle >= blk.start \/ angle <= blk.end

\* float distance of a channel, in raw units
DistanceRS(pkt, blk, chan) == ntohs(pkt.blocks[blk].channels[chan].distance)

\* int16_t angle_horiz_final of a channel
AngleHorizFinalRS(pkt, blk, chan) ==
  horizAdjust(chan, TraverserAngle(pkt, blk, chan))

\* the condition of the if: the point is in the distance and azimuth blocks
GateRS(distance, angle_horiz_final) ==
  /\ DistanceBlock_in(distance_block_, distance)
  /\ AzimuthBlock_in(scan_block_, angle_horiz_final)

\* the else-if branch with the placeholder forgotten
PlaceholderRS_dropped(dense_points, ring, chan_ts) == <<>>

\* the else-if branch: the point for a channel that fails the gate
PlaceholderRS(dense_points, ring, chan_ts) ==
  IF ~dense_points
  THEN << [x |-> NaN, y |-> NaN, z |-> NaN,
           intensity |-> <<0>>,
           ring |-> ring,
           timestamp |-> chan_ts] >>
  ELSE <<>>

\* what one iteration of the loop appends to the point cloud: a sequence of
\* zero or one point
PointRS(pkt, pkt_ts, blk, chan) ==
  LET angle_horiz == TraverserAngle(pkt, blk, chan)
      chan_ts == TraverserTs(pkt_ts, blk, chan)
      distance == DistanceRS(pkt, blk, chan)
      intensity == pkt.blocks[blk].channels[chan].intensity
      angle_vert == vertAdjust(chan)
      angle_horiz_final == AngleHorizFinalRS(pkt, blk, chan)
  IN  IF GateRS(distance, angle_horiz_final)
      THEN << [x |-> <<"x", distance, angle_vert, angle_horiz_final, angle_horiz>>,
               y |-> <<"y", distance, angle_vert, angle_horiz_final, angle_horiz>>,
               z |-> <<"z", distance, angle_vert>>,
               intensity |-> <<intensity>>,
               ring |-> toUserChan(chan),
               timestamp |-> chan_ts] >>
      ELSE PlaceholderRS(param_.dense_points, toUserChan(chan), chan_ts)

\* the error callback invocations of one iteration
BlockErrorRS(pkt, blk) ==
  IF memcmpNeq(BLOCK_ID, pkt.blocks[blk].id, 2)
  THEN <<ERRCODE_WRONGPKTHEADER>> ELSE <<>>

\* the appends of all iterations, in traversal order
PointsRS(pkt, pkt_ts) ==
  LET slots == [k \in 1..(BLOCKS_PER_PKT * CHANNELS_PER_BLOCK) |->
                  PointRS(pkt, pkt_ts, (k - 1) \div CHANNELS_PER_BLOCK,
                                       (k - 1) % CHANNELS_PER_BLOCK)]
      kept == SelectSeq(slots, LAMBDA s : s # <<>>)
  IN  [i \in 1..Len(kept) |-> kept[i][1]]

ErrorsRS(pkt) ==
  LET slots == [k \in 1..(BLOCKS_PER_PKT * CHANNELS_PER_BLOCK) |->
                  BlockErrorRS(pkt, (k - 1) \div CHANNELS_PER_BLOCK)]
      kept == SelectSeq(slots, LAMBDA s : s # <<>>)
  IN  [i \in 1..Len(kept) |-> kept[i][1]]

decodeMsopPktRS ==
  /\ pending /\ impl = "DecoderRS32" /\ call.kind = "msop"
  /\ pending' = FALSE
  /\ temperature_' = calcTemp(call.header.temp_raw)
  /\ errs' = errs \o ErrorsRS(call)
  /\ vec' = vec \o PointsRS(call, PktTimestamp(call, param_.use_lidar_clock))
  /\ UNCHANGED <<impl, param_, echo_mode_, rpm_, pkts_per_frame_,
                 cali_data_flag_, vert_angle_list_, hori_angle_list_,
                 max_distance_, min_distance_, start_angle_, end_angle_,
                 angle_flag_, difop_ready_, chan_angles_, distance_block_,
                 scan_block_, call, ret, cali_populated>>

\* ------------------------------------------------------------------------
\* Specification
\* ------------------------------------------------------------------------
Next ==
  \/ HostSendsMsop
  \/ HostSendsDifop
  \/ HostLoadsFile
  \/ HostTakesOutput
  \/ decodeDifopPkt
  \/ loadCalibrationFile
  \/ decodeMsopPkt32
  \/ processDifopPkt
  \/ decodeMsopPktRS

Spec == Init /\ [][Next]_vars

\* ------------------------------------------------------------------------
\* Properties
\* ------------------------------------------------------------------------
\* the call of the given kind has run to completion
Done(kind) == ~pending /\ call.kind = kind

IsDualEcho ==
  IF impl = "Decoder32" THEN echo_mode_ = RS_ECHO_DUAL ELSE echo_mode_ = ECHO_DUAL

IsSingleEcho ==
  IF impl = "Decoder32" THEN echo_mode_ \in {1, 2} ELSE echo_mode_ = ECHO_SINGLE

\* number of invocations of the error callback with the given code
ErrCount(code) == Cardinality({i \in 1..Len(errs) : errs[i] = code})

\* C1: after decoding a configuration packet (right length, right DIFOP id)
\* the echo mode is single-return when return_mode is 0x01 or 0x02 and
\* dual-return for every other byte value, whatever it was before.
C1_EchoModeOfReturnMode ==
  (Done("difop") /\ call.size = DIFOP_LEN /\ call.id = DIFOP_ID) =>
     IF call.return_mode \in {1, 2} THEN IsSingleEcho ELSE IsDualEcho

\* the calibration table of the decoder
CalibrationTable == <<vert_angle_list_, hori_angle_list_, chan_angles_>>

\* C2: once all 32 entries have been populated (by a loaded file or by a
\* configuration packet), no configuration-packet decode changes any entry.
C2_CalibrationWrittenOnce ==
  [][(cali_populated /\ pending /\ call.kind = "difop" /\ ~pending')
        => CalibrationTable' = CalibrationTable]_vars

\* a spin-data packet of the right length and id whose blocks all carry the
\* block id
ValidMsop(pkt) ==
  /\ pkt.size = MSOP_LEN
  /\ pkt.header.id = MSOP_ID
  /\ \A b \in Blocks : pkt.blocks[b].id = BLOCK_ID

PointsPerPacket == BLOCKS_PER_PKT * CHANNELS_PER_BLOCK

\* C3: one decode of a valid spin-data packet appends exactly 12 x 32 = 384
\* points when dense output is disabled (placeholders counted) and at most
\* 384 points when it is enabled.
C3_PointsPerPacket ==
  (Done("msop") /\ ValidMsop(call)) =>
     /\ ~param_.dense_points => Len(vec) = PointsPerPacket
     /\ param_.dense_points => Len(vec) <= PointsPerPacket

\* a sparse decode of a valid packet by DecoderRS32 that emitted 384 points,
\* placeholders among them
C3_Witness ==
  /\ Done("msop") /\ ValidMsop(call)
  /\ impl = "DecoderRS32" /\ ~param_.dense_points
  /\ Len(vec) = PointsPerPacket
  /\ \E i \in 1..Len(vec) : IsNaN(vec[i].x)
  /\ \E i \in 1..Len(vec) : ~IsNaN(vec[i].x)

\* C4: a DecoderRS32 decode of a packet (spin-data or configuration) whose
\* length is not 1248 invokes the error callback with WrongPacketLength
\* exactly once during the call.
C4_WrongLengthSignalledOnce ==
  (impl = "DecoderRS32" /\ (Done("msop") \/ Done("difop"))
     /\ call.size # MSOP_LEN) =>
       ErrCount(ERRCODE_WRONGPKTLENGTH) = 1

\* C5: in a spin-data decode, a block with a wrong block id makes the
\* decoder signal WrongPacketHeader and go on: all 12 x 32 channels are still
\* processed (each leaves a point unless dense output drops it).
C5_WrongBlockIdNotFatal ==
  (Done("msop") /\ call.header.id = MSOP_ID
     /\ \E b \in Blocks : call.blocks[b].id # BLOCK_ID) =>
       /\ ErrCount(ERRCODE_WRONGPKTHEADER) >= 1
       /\ (impl = "Decoder32" \/ ~param_.dense_points)
             => Len(vec) = PointsPerPacket

\* the echo mode the decoder class derives from a return_mode byte
EchoModeOf(return_mode) ==
  IF impl = "Decoder32" THEN Decoder32_echo_mode(return_mode)
  ELSE getEchoMode(return_mode)

\* C6: a configuration packet whose identifier is not the DIFOP id is
\* handled non-fatally: WrongPacketHeader is signalled and the packet is
\* still processed, so the echo mode is the one of its return_mode byte.
C6_WrongDifopIdNotFatal ==
  (Done("difop") /\ call.id # DIFOP_ID) =>
     /\ ErrCount(ERRCODE_WRONGPKTHEADER) >= 1
     /\ echo_mode_ = EchoModeOf(call.return_mode)

\* C7: after construction of a Decoder32 with any configured bounds,
\* 0.4 m <= min_distance_ <= max_distance_ <= 200.0 m.
C7_DistanceBoundsClamped ==
  impl = "Decoder32" =>
     /\ RS32_MIN_RANGE <= min_distance_
     /\ min_distance_ <= max_distance_
     /\ max_distance_ <= RS32_MAX_RANGE

\* block and channel of the k-th iteration of the decode loops (k from 1)
SlotBlock(k) == (k - 1) \div CHANNELS_PER_BLOCK
SlotChannel(k) == (k - 1) % CHANNELS_PER_BLOCK
Slots == 1..PointsPerPacket

\* timestamp of the k-th channel of the packet being decoded by DecoderRS32
SlotTs(k) ==
  TraverserTs(PktTimestamp(call, param_.use_lidar_clock), SlotBlock(k), SlotChannel(k))

\* the k-th channel of the decoded packet fails the DecoderRS32 gate
SlotFailsGateRS(k) ==
  ~GateRS(DistanceRS(call, SlotBlock(k), SlotChannel(k)),
          AngleHorizFinalRS(call, SlotBlock(k), SlotChannel(k)))

\* C8: for every channel whose point fails the gate, sparse output emits
\* exactly one placeholder whose x, y, z and intensity are all NaN and whose
\* ring and timestamp are the channel's; dense output emits nothing for it.
C8_PlaceholderAllNaN ==
  (Done("msop") /\ impl = "DecoderRS32") =>
     \A k \in Slots : SlotFailsGateRS(k) =>
        IF ~param_.dense_points
        THEN /\ Len(vec) = PointsPerPacket
             /\ vec[k] = [x |-> NaN, y |-> NaN, z |-> NaN, intensity |-> NaN,
                          ring |-> toUserChan(SlotChannel(k)),
                          timestamp |-> SlotTs(k)]
        ELSE \A i \in 1..Len(vec) : vec[i].timestamp # SlotTs(k)

\* the gate as the claim states it: inclusive distance bounds, and an
\* azimuth window that wraps through zero when start > end
Kept(distance, angle, mind, maxd, start, end) ==
  /\ mind <= distance /\ distance <= maxd
  /\ IF start <= end THEN start <= angle /\ angle <= end
                     ELSE angle >= start \/ angle <= end

SlotKept32(k) ==
  Kept(Distance32(call, SlotBlock(k), SlotChannel(k)),
       AngleHoriz32(call, SlotBlock(k), SlotChannel(k)),
       min_distance_, max_distance_, start_angle_, end_angle_)

SlotKeptRS(k) ==
  Kept(DistanceRS(call, SlotBlock(k), SlotChannel(k)),
       AngleHorizFinalRS(call, SlotBlock(k), SlotChannel(k)),
       distance_block_.min, distance_block_.max,
       scan_block_.start, scan_block_.end)

C10_AzimuthDiffInRange ==
  (Done("msop") /\ impl = "Decoder32" /\ call.header.id = RS32_MSOP_ID) =>
     \A b \in Blocks : b < BlocksDecoded32(call, 0) =>
        /\ azimuth_diff(call, echo_mode_, b) >= 0
        /\ azimuth_diff(call, echo_mode_, b) < 36000

\* the fields and the calibration table that a spin-data packet decode is
\* handed to read: echo mode, distance bounds, azimuth bounds, RPM,
\* temperature, the calibration-ready flags and the 32 calibration entries
MsopReadOnlyState ==
  <<echo_mode_, max_distance_, min_distance_, distance_block_, start_angle_,
    end_angle_, angle_flag_, scan_block_, rpm_, temperature_,
    cali_data_flag_, difop_ready_, CalibrationTable>>

\* a step that runs a spin-data packet decode to completion
MsopDecodeStep == pending /\ call.kind = "msop" /\ ~pending'

\* s is an initial segment of t
IsPrefixOf(s, t) == Len(s) <= Len(t) /\ \A i \in 1..Len(s) : s[i] = t[i]

\* C11: across any spin-data packet decode the echo mode, the distance and
\* azimuth bounds, the RPM, the temperature, the calibration-ready flag and
\* all 32 calibration entries are unchanged; the call only appends points to
\* the sink and invokes the error callback.
C11_MsopDecodeReadOnly ==
  [][MsopDecodeStep =>
       /\ MsopReadOnlyState' = MsopReadOnlyState
       /\ IsPrefixOf(vec, vec') /\ IsPrefixOf(errs, errs')]_vars

\* the pairing of block b in dual-echo mode (two positions away) and in
\* single-echo mode (one position away); the last blocks pair backwards
PairingStride(dual) == IF dual THEN 2 ELSE 1

StatedReversed(dual, b) == b >= RS32_BLOCKS_PER_PKT - PairingStride(dual)

StatedPairedBlock(dual, b) ==
  IF StatedReversed(dual, b) THEN b - PairingStride(dual)
                             ELSE b + PairingStride(dual)

StatedAzimuthDiff(pkt, dual, b) ==
  IF StatedReversed(dual, b)
  THEN AzimuthDiff(BlockAzimuth(pkt, b),
                   BlockAzimuth(pkt, StatedPairedBlock(dual, b)))
  ELSE AzimuthDiff(BlockAzimuth(pkt, StatedPairedBlock(dual, b)),
                   BlockAzimuth(pkt, b))

\* the block the decoder in use reads as the other end of the interpolation
\* interval of block b, whether it reads it backwards, and the delta it gets
ReferenceBlock(b) ==
  IF impl = "Decoder32" THEN PairedBlock(echo_mode_, b)
                        ELSE TraverserPairedBlock(b)

ReferenceReversed(b) ==
  IF impl = "Decoder32" THEN ~PairForward(echo_mode_, b)
                        ELSE ~TraverserForward(b)

ReferenceAzimuthDiff(b) ==
  IF impl = "Decoder32" THEN azimuth_diff(call, echo_mode_, b)
                        ELSE TraverserDiff(call, b)

\* the blocks of the packet in call that the decode interpolated
InterpolatedBlocks ==
  IF impl = "Decoder32"
  THEN (IF call.header.id = RS32_MSOP_ID
        THEN {b \in Blocks : b < BlocksDecoded32(call, 0)} ELSE {})
  ELSE Blocks

\* C12: in a spin-data packet decode, block b is interpolated against the
\* block two positions away when the echo mode at the call is dual (b+2, or
\* b-2 reversed for the last two blocks) and against the block one position
\* away when it is single (b+1, or b-1 reversed for the last block); the
\* paired index is within 0..11.
C12_PairingFollowsEchoMode ==
  Done("msop") =>
     \A b \in InterpolatedBlocks :
        /\ ReferenceBlock(b) \in Blocks
        /\ ReferenceBlock(b) = StatedPairedBlock(IsDualEcho, b)
        /\ ReferenceReversed(b) = StatedReversed(IsDualEcho, b)
        /\ ReferenceAzimuthDiff(b) = StatedAzimuthDiff(call, IsDualEcho, b)
====
